---- MODULE Spec2Model ----
(***************************************************************************)
(* Dividend-adjusted finite-difference option: DividendOption of           *)
(* dividendoption.cpp (src/unnamed/part_000).                              *)
(*                                                                         *)
(* Real numbers are exact rationals <<num, den>> with den > 0, in lowest   *)
(* terms.  Prices are symbolic records: the value of the cubic spline at a *)
(* knot is the knot's price, its value anywhere else is an uninterpreted   *)
(* term of the knots, the knot prices and the evaluation point.            *)
(* Arrays are 1-based here: the C++ index j is j+1, so the C++ index       *)
(* gridSize-2 is gridSize-1.                                               *)
(***************************************************************************)
EXTENDS Integers, Sequences, FiniteSets, TLC

VARIABLES
    \* constructor arguments
    underlying, dividends, exdivdates, gridPoints,
    \* fields of the object
    dividends_, underlying_, dateNumber_, dates_,
    center_, sMin_, sMax_, grid_, initialPrices_, prices_, controlPrices_,
    \* position of the valuation and its outcome
    pc, step, err,
    \* what the last executeIntermediateStep did
    oldGridSnap, callLog,
    \* history of the valuation
    condCount, transfers, visited,
    \* the analytic control variate and the limits setGridLimits last set
    analytic_, gridLimitsSet,
    \* the bounds and the grid the last event started from
    preEvent,
    \* a single call of movePricesBeforeExDiv on arbitrary arguments
    tpc, tPrices, tNewGrid, tOldGrid, tOut,
    \* a SimpleQuote: its field, and the argument, the stored value found,
    \* the result and the notifications of its setValue calls
    qpc, value_, quoteArg, quoteOld, quoteDiff, notifications, quoteCalls

optionVars == <<underlying, dividends, exdivdates, gridPoints,
                dividends_, underlying_, dateNumber_, dates_,
                center_, sMin_, sMax_, grid_, initialPrices_, prices_,
                controlPrices_, pc, step, err, oldGridSnap, callLog,
                condCount, transfers, visited, analytic_, gridLimitsSet,
                preEvent>>

transferVars == <<tpc, tPrices, tNewGrid, tOldGrid, tOut>>

quoteVars == <<qpc, value_, quoteArg, quoteOld, quoteDiff, notifications,
               quoteCalls>>

vars == <<optionVars, transferVars, quoteVars>>

-----------------------------------------------------------------------------
(* Bounds of the model *)

MaxUnderlying == 4
MaxDividend == 2
MaxDates == 2
MaxGridPoints == 3
MaxFactor == 4
MaxLen == 3
MaxGridValue == 4
MaxPrice == 1
MaxQuote == 2
MaxCalls == 3

-----------------------------------------------------------------------------
(* Exact arithmetic standing for double *)

Abs(n) == IF n < 0 THEN -n ELSE n

RECURSIVE GCD(_, _)
GCD(a, b) == IF b = 0 THEN a ELSE GCD(b, a % b)

Norm(n, d) ==
    LET s == IF d < 0 THEN -1 ELSE 1
        g == GCD(Abs(n), Abs(d))
    IN  <<(s * n) \div g, (s * d) \div g>>

R(n) == <<n, 1>>
\* each operand is evaluated once, then the quotient is reduced
RAdd(a, b) ==
    CHOOSE r \in {Norm(x[1] * y[2] + y[1] * x[2], x[2] * y[2]) :
                     x \in {a}, y \in {b}} : TRUE
RSub(a, b) ==
    CHOOSE r \in {Norm(x[1] * y[2] - y[1] * x[2], x[2] * y[2]) :
                     x \in {a}, y \in {b}} : TRUE
RMul(a, b) ==
    CHOOSE r \in {Norm(x[1] * y[1], x[2] * y[2]) :
                     x \in {a}, y \in {b}} : TRUE
RDiv(a, b) ==
    CHOOSE r \in {Norm(x[1] * y[2], x[2] * y[1]) :
                     x \in {a}, y \in {b}} : TRUE
RLt(a, b) == a[1] * b[2] < b[1] * a[2]
RGt(a, b) == RLt(b, a)
RGe(a, b) == ~RLt(a, b)
RLe(a, b) == ~RLt(b, a)

StrictlyIncreasing(g) == \A i \in 1..(Len(g) - 1) : RLt(g[i], g[i + 1])

\* Array + double
ArrayPlus_short(a, d) == [j \in 1..(Len(a) - 1) |-> RAdd(a[j], R(d))]
ArrayPlus(a, d) == [j \in 1..Len(a) |-> RAdd(a[j], R(d))]

RECURSIVE addElements(_)
addElements(v) == IF v = <<>> THEN 0 ELSE Head(v) + addElements(Tail(v))

-----------------------------------------------------------------------------
(* movePricesBeforeExDiv *)

NaN == [kind |-> "nan"]

\* QL_LOG: defined for strictly positive arguments only; log is strictly
\* increasing, so two logs compare as their arguments do.
QL_LOG(g) == IF RGt(g, R(0)) THEN [kind |-> "log", of |-> g] ELSE NaN

LogLe(x, y) == x.kind = "log" /\ y.kind = "log" /\ RLe(x.of, y.of)

\* if (g > 0)
KeepPoint_zero(g) == RGe(g, R(0))
KeepPoint(g) == RGt(g, R(0))

RECURSIVE KeptFrom(_, _)
KeptFrom(oldGrid, j) ==
    IF j > Len(oldGrid) THEN <<>>
    ELSE IF KeepPoint(oldGrid[j]) THEN <<j>> \o KeptFrom(oldGrid, j + 1)
    ELSE KeptFrom(oldGrid, j + 1)

\* the indices whose pair (oldGrid[j], prices[j]) is pushed back
Kept(oldGrid) == KeptFrom(oldGrid, 1)

\* CubicSpline constructor: needs two points to interpolate
CubicSplineOk(xs) == Len(xs) >= 2

\* priceSpline(x): the interpolating spline passes through its knots
priceSpline(xs, ys, x) ==
    IF x.kind = "nan" THEN [kind |-> "nanprice"]
    ELSE IF \E k \in 1..Len(xs) : xs[k] = x
         THEN ys[CHOOSE k \in 1..Len(xs) : xs[k] = x]
         ELSE [kind |-> "interp", xs |-> xs, ys |-> ys, x |-> x]

\* if (newGrid[j] >= oldGrid[gridSize-2]) jGrid = gridSize-2; else jGrid = j;
jGridOf_unclamped(j, newGrid, oldGrid) == j
jGridOf_last(j, newGrid, oldGrid) ==
    IF RGe(newGrid[j], oldGrid[Len(oldGrid) - 1]) THEN Len(oldGrid) ELSE j
jGridOf(j, newGrid, oldGrid) ==
    IF RGe(newGrid[j], oldGrid[Len(oldGrid) - 1]) THEN Len(oldGrid) - 1 ELSE j

\* double logNewGridPoint = QL_LOG(newGrid[jGrid]);
EvalPoint_old(newGrid, oldGrid, jGrid) == oldGrid[jGrid]
EvalPoint(newGrid, oldGrid, jGrid) == newGrid[jGrid]

\* double p = prices[j]; ... tmpPrices.push_back(p);
PairedPrice_byPosition(prices, kept, k) == prices[k]
PairedPrice(prices, kept, k) == prices[kept[k]]

\* priceSpline(logOldGrid.begin(), logOldGrid.end(), tmpPrices.begin()): the
\* spline reads the copy tmpPrices, not the array prices that is written
SplineData_inPlace(tmpPrices, prices, kept) ==
    [k \in 1..Len(kept) |-> prices[kept[k]]]
SplineData(tmpPrices, prices, kept) == tmpPrices

\* for (j = 0; j < gridSize; j++) { ... prices[j] = priceSpline(...); }
\* from index j on, cur being the array as written so far
RECURSIVE WriteFrom(_, _, _, _, _, _, _)
WriteFrom(j, cur, gridSize, xs, tmpPrices, kept, at) ==
    IF j > gridSize \/ j > Len(cur) THEN cur
    ELSE CHOOSE r \in
            {WriteFrom(j + 1, nxt, gridSize, xs, tmpPrices, kept, at) :
                nxt \in {[cur EXCEPT ![j] =
                            priceSpline(xs,
                                        SplineData(tmpPrices, cur, kept),
                                        at[j])]}} : TRUE

\* the spline constructor throws before the loop that writes prices[j]
PricesOnThrow_written(prices) ==
    [j \in 1..Len(prices) |-> [kind |-> "nanprice"]]
PricesOnThrow(prices) == prices

movePricesBeforeExDiv(prices, newGrid, oldGrid) ==
    LET gridSize == Len(oldGrid)
        kept == Kept(oldGrid)
        logOldGrid == [k \in 1..Len(kept) |-> QL_LOG(oldGrid[kept[k]])]
        tmpPrices == [k \in 1..Len(kept) |-> PairedPrice(prices, kept, k)]
    IN  IF ~CubicSplineOk(logOldGrid)
        THEN [status |-> "DegenerateGridError",
              prices |-> PricesOnThrow(prices),
              logOldGrid |-> logOldGrid, tmpPrices |-> tmpPrices,
              jGrid |-> <<>>, evalAt |-> <<>>,
              newGridReads |-> {}, written |-> {}]
        ELSE LET jg == [j \in 1..gridSize |-> jGridOf(j, newGrid, oldGrid)]
                 at == [j \in 1..gridSize |->
                           QL_LOG(EvalPoint(newGrid, oldGrid, jg[j]))]
                 out == WriteFrom(1, prices, gridSize, logOldGrid,
                                  tmpPrices, kept, at)
             IN  [status |-> "ok", prices |-> out,
                  logOldGrid |-> logOldGrid, tmpPrices |-> tmpPrices,
                  jGrid |-> jg, evalAt |-> at,
                  newGridReads |-> (1..gridSize) \cup
                                   {jg[j] : j \in 1..gridSize},
                  written |-> 1..gridSize]

-----------------------------------------------------------------------------
(* Real as SimpleQuote holds it: finite values, the two infinities, NaN *)

Fin(i) == [kind |-> "fin", v |-> i]
Inf(sign) == [kind |-> "inf", sign |-> sign]

QuoteValues ==
    {Fin(i) : i \in (-MaxQuote)..MaxQuote} \cup {Inf(1), Inf(-1), NaN}

\* value - value_ in IEEE arithmetic
RealSub(a, b) ==
    IF a.kind = "nan" \/ b.kind = "nan" THEN NaN
    ELSE IF a.kind = "inf"
         THEN IF b.kind = "inf" /\ b.sign = a.sign THEN NaN ELSE a
    ELSE IF b.kind = "inf" THEN Inf(-b.sign)
    ELSE Fin(a.v - b.v)

\* a != b in IEEE arithmetic: NaN differs from everything, itself included
RealNe(a, b) ==
    IF a.kind = "nan" \/ b.kind = "nan" THEN TRUE
    ELSE IF a.kind # b.kind THEN TRUE
    ELSE IF a.kind = "inf" THEN a.sign # b.sign
    ELSE a.v # b.v

\* if (diff != 0.0)
Changed_always(diff) == TRUE
Changed(diff) == RealNe(diff, Fin(0))

QuoteIdle ==
    /\ qpc = "Idle" /\ value_ = Fin(0) /\ quoteArg = Fin(0)
    /\ quoteOld = Fin(0) /\ quoteDiff = Fin(0)
    /\ notifications = 0 /\ quoteCalls = 0

-----------------------------------------------------------------------------
(* One call of movePricesBeforeExDiv on arbitrary arguments *)

GridValues == {R(i) : i \in (-1)..MaxGridValue}

IncreasingGrids(n) ==
    {g \in [1..n -> GridValues] : StrictlyIncreasing(g)}

PriceConstants == {[kind |-> "const", v |-> i] : i \in 0..MaxPrice}

NoAnalytic == [underlying |-> 0, dividends |-> <<>>, dates |-> <<>>]

NoLimits == [center |-> 0, sMin |-> R(0), sMax |-> R(0)]

NoEvent == [sMin |-> R(0), sMax |-> R(0), grid |-> <<>>]

OptionIdle ==
    /\ underlying = 0 /\ dividends = <<>> /\ exdivdates = <<>>
    /\ gridPoints = 0
    /\ dividends_ = <<>> /\ underlying_ = 0 /\ dateNumber_ = 0
    /\ dates_ = <<>>
    /\ center_ = 0 /\ sMin_ = R(0) /\ sMax_ = R(0)
    /\ grid_ = <<>> /\ initialPrices_ = <<>> /\ prices_ = <<>>
    /\ controlPrices_ = <<>>
    /\ pc = "Idle" /\ step = 1 /\ err = "none"
    /\ oldGridSnap = <<>> /\ callLog = <<>>
    /\ condCount = [prices_ |-> 0, controlPrices_ |-> 0]
    /\ transfers = <<>> /\ visited = <<>>
    /\ analytic_ = NoAnalytic /\ gridLimitsSet = NoLimits
    /\ preEvent = NoEvent

NoResult ==
    [status |-> "none", prices |-> <<>>, logOldGrid |-> <<>>,
     tmpPrices |-> <<>>, jGrid |-> <<>>, evalAt |-> <<>>,
     newGridReads |-> {}, written |-> {}]

TransferIdle ==
    /\ tpc = "Idle" /\ tPrices = <<>> /\ tNewGrid = <<>>
    /\ tOldGrid = <<>> /\ tOut = NoResult

\* oldGrid=[1,10,100], prices=[0,5,12], newGrid=[2,50]
ScenarioC ==
    /\ tOldGrid = <<R(1), R(10), R(100)>>
    /\ tPrices = <<[kind |-> "const", v |-> 0], [kind |-> "const", v |-> 5],
                   [kind |-> "const", v |-> 12]>>
    /\ tNewGrid = <<R(2), R(50)>>

TransferInit ==
    /\ OptionIdle
    /\ QuoteIdle
    /\ tpc = "args"
    /\ \/ \E n \in 0..MaxLen, m \in 0..MaxLen :
             /\ tOldGrid \in IncreasingGrids(n)
             /\ tNewGrid \in IncreasingGrids(m)
             /\ tPrices \in [1..n -> PriceConstants]
       \/ ScenarioC
    /\ tOut = NoResult

\* newGrid[j]: Array::operator[] is unchecked, an index at or beyond
\* newGrid.size() reads whatever lies behind the array
NewGridAsRead(newGrid, gridSize, behind) ==
    [j \in 1..(IF gridSize > Len(newGrid) THEN gridSize ELSE Len(newGrid))
        |-> IF j <= Len(newGrid) THEN newGrid[j] ELSE behind]

Transfer ==
    /\ tpc = "args"
    /\ \E behind \in GridValues :
          tOut' = movePricesBeforeExDiv(
                      tPrices,
                      NewGridAsRead(tNewGrid, Len(tOldGrid), behind),
                      tOldGrid)
    /\ tpc' = "returned"
    /\ UNCHANGED <<tPrices, tNewGrid, tOldGrid, optionVars, quoteVars>>

TransferNext == Transfer

TransferSpec == TransferInit /\ [][TransferNext]_vars

-----------------------------------------------------------------------------
(* The PDE engine behind DividendOption (BSMNumericalOption and            *)
(* MultiPeriodOption) *)

\* a narrow and a wide factor
Factors == {2, MaxFactor}

\* setGridLimits(center, timeDelay): center_ = center, bounds log-symmetric
\* around it; the factor depends on volatility and timeDelay
setGridLimits_linear(center, f) ==
    [center |-> center, sMin |-> RSub(R(center), R(f)),
     sMax |-> RAdd(R(center), R(f))]
setGridLimits(center, f) ==
    [center |-> center, sMin |-> RDiv(R(center), R(f)),
     sMax |-> RMul(R(center), R(f))]

GridShapes == {"linear", "quadratic"}

\* weight of grid point j of n between sMin (0) and sMax (1)
GridWeight(j, n, shape) ==
    IF n = 1 THEN R(0)
    ELSE IF shape = "linear" THEN Norm(j - 1, n - 1)
    ELSE Norm((j - 1) * (j - 1), (n - 1) * (n - 1))

\* initializeGrid(): gridPoints_ strictly increasing levels from sMin_ to
\* sMax_
initializeGrid(sMin, sMax, n, shape) ==
    [j \in 1..n |->
        RAdd(sMin, RMul(RSub(sMax, sMin), GridWeight(j, n, shape)))]

\* initializeInitialCondition(): the payoff at each grid level
initializeInitialCondition(grid) ==
    [j \in 1..Len(grid) |-> [kind |-> "payoff", at |-> grid[j]]]

\* model_->rollback(prices, ...): time marching between two events
rollback(a, to) ==
    [j \in 1..Len(a) |-> [kind |-> "rollback", of |-> a[j], to |-> to]]

\* stepCondition_->applyTo(prices, date)
applyTo(a, initial, date) ==
    [j \in 1..Len(a) |->
        [kind |-> "applyTo", of |-> a[j], floor |-> initial[j],
         date |-> date]]

-----------------------------------------------------------------------------
(* DividendOption::DividendOption *)

\* MultiPeriodOption(type, underlying - addElements(dividends), ...)
BaseUnderlying_gross(u, divs) == u
BaseUnderlying(u, divs) == u - addElements(divs)

\* QL_REQUIRE(dateNumber_ == dividends_.size(), ...)
CountOk_atLeast(dateNumber, divs) == dateNumber >= Len(divs)
CountOk(dateNumber, divs) == dateNumber = Len(divs)

\* QL_REQUIRE(underlying > addElements(dividends), ...)
SumOk_equal(u, divs) == u >= addElements(divs)
SumOk(u, divs) == u > addElements(divs)

\* DividendOption::initializeControlVariate: the arguments of the
\* DividendEuropeanOption
ControlVariateSpot_net(u_, divs_) == u_
ControlVariateSpot(u_, divs_) == u_ + addElements(divs_)

initializeControlVariate(u_, divs_, dts_) ==
    [underlying |-> ControlVariateSpot(u_, divs_), dividends |-> divs_,
     dates |-> dts_]

\* the driver's step to the next event and its test for the last one
NextEvent_skip(k) == k + 2
NextEvent(k) == k + 1

LastEvent_never(k, n) == k > n
LastEvent(k, n) == k = n

DividendSchedules ==
    UNION {[1..n -> 0..MaxDividend] : n \in 0..MaxDates}

ExDates == {[i \in 1..n |-> i] : n \in 0..MaxDates}

Init ==
    /\ TransferIdle
    /\ QuoteIdle
    /\ underlying \in 1..MaxUnderlying
    /\ dividends \in DividendSchedules
    /\ exdivdates \in ExDates
    /\ gridPoints \in 1..MaxGridPoints
    /\ dividends_ = <<>> /\ underlying_ = 0 /\ dateNumber_ = 0
    /\ dates_ = <<>>
    /\ center_ = 0 /\ sMin_ = R(0) /\ sMax_ = R(0)
    /\ grid_ = <<>> /\ initialPrices_ = <<>> /\ prices_ = <<>>
    /\ controlPrices_ = <<>>
    /\ pc = "Unconstructed" /\ step = 1 /\ err = "none"
    /\ oldGridSnap = <<>> /\ callLog = <<>>
    /\ condCount = [prices_ |-> 0, controlPrices_ |-> 0]
    /\ transfers = <<>> /\ visited = <<>>
    /\ analytic_ = NoAnalytic /\ gridLimitsSet = NoLimits
    /\ preEvent = NoEvent

\* the constructor: the base class is initialised in the initialiser list,
\* the two requirements are checked in the body
Construct ==
    /\ pc = "Unconstructed"
    /\ dividends_' = dividends
    /\ underlying_' = BaseUnderlying(underlying, dividends)
    /\ dateNumber_' = Len(exdivdates)
    /\ dates_' = exdivdates
    /\ callLog' = <<"MultiPeriodOption">>
    /\ IF ~CountOk(dateNumber_', dividends_')
       THEN pc' = "Failed" /\ err' = "ConfigurationError:count"
       ELSE IF ~SumOk(underlying, dividends)
       THEN pc' = "Failed" /\ err' = "ConfigurationError:sum"
       ELSE pc' = "Constructed" /\ err' = "none"
    /\ UNCHANGED <<underlying, dividends, exdivdates, gridPoints,
                   center_, sMin_, sMax_, grid_, initialPrices_, prices_,
                   controlPrices_, step, oldGridSnap, condCount, transfers,
                   visited, analytic_, gridLimitsSet, preEvent,
                   transferVars, quoteVars>>

\* start of the valuation at maturity: limits, grid and initial condition
\* for the net spot; both price arrays start from the initial condition
StartValuation ==
    /\ pc = "Constructed"
    /\ \E f \in Factors, shape \in GridShapes :
          LET lim == setGridLimits(underlying_, f)
              g == initializeGrid(lim.sMin, lim.sMax, gridPoints, shape)
          IN  /\ center_' = lim.center
              /\ sMin_' = lim.sMin
              /\ sMax_' = lim.sMax
              /\ grid_' = g
              /\ initialPrices_' = initializeInitialCondition(g)
              /\ prices_' = initializeInitialCondition(g)
              /\ controlPrices_' = initializeInitialCondition(g)
              /\ gridLimitsSet' = lim
    /\ analytic_' = initializeControlVariate(underlying_, dividends_, dates_)
    /\ callLog' = <<"setGridLimits", "initializeGrid",
                    "initializeInitialCondition",
                    "initializeControlVariate">>
    /\ pc' = "AtMaturity"
    /\ UNCHANGED <<underlying, dividends, exdivdates, gridPoints,
                   dividends_, underlying_, dateNumber_, dates_, step, err,
                   oldGridSnap, condCount, transfers, visited, preEvent,
                   transferVars, quoteVars>>

\* time marching down to the next event
Rollback ==
    /\ pc \in {"AtMaturity", "BetweenEvents"}
    /\ step <= dateNumber_
    /\ prices_' = rollback(prices_, dates_[step])
    /\ controlPrices_' = rollback(controlPrices_, dates_[step])
    /\ pc' = "AtDividendEvent"
    /\ UNCHANGED <<underlying, dividends, exdivdates, gridPoints,
                   dividends_, underlying_, dateNumber_, dates_,
                   center_, sMin_, sMax_, grid_, initialPrices_, step, err,
                   oldGridSnap, callLog, condCount, transfers, visited,
                   analytic_, gridLimitsSet, preEvent, transferVars, quoteVars>>

\* a valuation without events
Finish ==
    /\ pc = "AtMaturity"
    /\ dateNumber_ = 0
    /\ pc' = "Done"
    /\ UNCHANGED <<underlying, dividends, exdivdates, gridPoints,
                   dividends_, underlying_, dateNumber_, dates_,
                   center_, sMin_, sMax_, grid_, initialPrices_, prices_,
                   controlPrices_, step, err, oldGridSnap, callLog,
                   condCount, transfers, visited, analytic_, gridLimitsSet,
                   preEvent, transferVars, quoteVars>>

-----------------------------------------------------------------------------
(* DividendOption::executeIntermediateStep *)

\* double newSMin = sMin_ + dividends_[step];
NewSMin(sMin, d) == RAdd(sMin, R(d))

\* sMax_ = center_/(sMin_/center_);
WidenedSMax_swapped(center, sMin) ==
    RMul(R(center), RDiv(sMin, R(center)))
WidenedSMax_linear(center, sMin) == RSub(RMul(R(2), R(center)), sMin)
WidenedSMax(center, sMin) == RDiv(R(center), RDiv(sMin, R(center)))

\* setGridLimits(center_ + dividends_[step], dates_[step]);
NewCenter_same(center, d) == center
NewCenter_minus(center, d) == center - d
NewCenter(center, d) == center + d

\* if (newSMin > sMin_)
Widens_never(newSMin, sMinSet) == FALSE
Widens_always(newSMin, sMinSet) == TRUE
Widens(newSMin, sMinSet) == RGt(newSMin, sMinSet)

\* newSMin is taken before setGridLimits, the comparison is made with the
\* sMin_ that setGridLimits has just set
GridLimitsAtEvent(sMinBefore, centerBefore, d, f) ==
    LET newSMin == NewSMin(sMinBefore, d)
        lim == setGridLimits(NewCenter(centerBefore, d), f)
    IN  IF Widens(newSMin, lim.sMin)
        THEN [center |-> lim.center, sMin |-> newSMin,
              sMax |-> WidenedSMax(lim.center, newSMin)]
        ELSE lim

\* Array oldGrid = grid_ + dividends_[step]; stands before initializeGrid()
OldGridBase_rebuilt(gridBefore, gridRebuilt) == gridRebuilt
OldGridBase(gridBefore, gridRebuilt) == gridBefore

\* initializeGrid(); initializeInitialCondition(); stand under no condition
RebuildsGrid_ifChanged(before, after) == before # after
RebuildsGrid(before, after) == TRUE

\* movePricesBeforeExDiv(prices_, grid_, oldGrid);
\* movePricesBeforeExDiv(controlPrices_, grid_, oldGrid);
TransferArgs_rebuilt(array, grid, oldGrid) ==
    IF array = "controlPrices_"
    THEN [array |-> array, newGrid |-> grid, oldGrid |-> grid]
    ELSE [array |-> array, newGrid |-> grid, oldGrid |-> oldGrid]
TransferArgs(array, grid, oldGrid) ==
    [array |-> array, newGrid |-> grid, oldGrid |-> oldGrid]

\* stepCondition_ -> applyTo(prices_, dates_[step]);
StepConditionTargets_both == {"prices_", "controlPrices_"}
StepConditionTargets == {"prices_"}

Conditioned(array, a, initial, date) ==
    IF array \in StepConditionTargets THEN applyTo(a, initial, date) ELSE a

Applied(array) == IF array \in StepConditionTargets THEN 1 ELSE 0

\* an array at the end of the handler: the transfers of lines 143-144 come
\* before applyTo of line 148
\* (a the array before the event, moved the array as its transfer left it)
AfterEvent_conditionFirst(array, a, moved, newGrid, oldGrid, initial, date) ==
    movePricesBeforeExDiv(Conditioned(array, a, initial, date),
                          newGrid, oldGrid).prices
AfterEvent(array, a, moved, newGrid, oldGrid, initial, date) ==
    Conditioned(array, moved, initial, date)

executeIntermediateStep ==
    /\ pc = "AtDividendEvent"
    /\ \E f \in Factors, shape \in GridShapes :
       \E lim \in {GridLimitsAtEvent(sMin_, center_, dividends_[step], f)} :
       \E rebuild \in {RebuildsGrid(<<sMin_, sMax_>>,
                                    <<lim.sMin, lim.sMax>>)} :
       \E g \in {IF rebuild
                 THEN initializeGrid(lim.sMin, lim.sMax, gridPoints, shape)
                 ELSE grid_} :
       \E oldGrid \in {ArrayPlus(OldGridBase(grid_, g), dividends_[step])} :
       \E initial \in {IF rebuild THEN initializeInitialCondition(g)
                       ELSE initialPrices_},
          a1 \in {TransferArgs("prices_", g, oldGrid)},
          a2 \in {TransferArgs("controlPrices_", g, oldGrid)} :
       \E m1 \in {movePricesBeforeExDiv(prices_, a1.newGrid, a1.oldGrid)},
          m2 \in {movePricesBeforeExDiv(controlPrices_, a2.newGrid,
                                        a2.oldGrid)},
          head \in {IF rebuild
                    THEN <<"setGridLimits", "initializeGrid",
                           "initializeInitialCondition">>
                    ELSE <<"setGridLimits">>} :
              /\ center_' = lim.center
              /\ sMin_' = lim.sMin
              /\ sMax_' = lim.sMax
              /\ gridLimitsSet' =
                    setGridLimits(NewCenter(center_, dividends_[step]), f)
              /\ visited' = Append(visited, step)
              /\ preEvent' = [sMin |-> sMin_, sMax |-> sMax_,
                              grid |-> grid_]
              /\ oldGridSnap' = oldGrid
              /\ grid_' = g
              /\ initialPrices_' = initial
              /\ IF m1.status # "ok"
                 THEN /\ pc' = "Failed" /\ err' = m1.status
                      /\ callLog' = head \o <<"movePricesBeforeExDiv:prices_">>
                      /\ prices_' = m1.prices
                      /\ UNCHANGED <<controlPrices_, step, condCount,
                                     transfers>>
                 ELSE IF m2.status # "ok"
                 THEN /\ pc' = "Failed" /\ err' = m2.status
                      /\ callLog' = head \o
                            <<"movePricesBeforeExDiv:prices_",
                              "movePricesBeforeExDiv:controlPrices_">>
                      /\ prices_' = m1.prices
                      /\ controlPrices_' = m2.prices
                      /\ transfers' = Append(transfers, a1)
                      /\ UNCHANGED <<step, condCount>>
                 ELSE /\ prices_' =
                            AfterEvent("prices_", prices_, m1.prices,
                                       a1.newGrid, a1.oldGrid, initial,
                                       dates_[step])
                      /\ controlPrices_' =
                            AfterEvent("controlPrices_", controlPrices_,
                                       m2.prices, a2.newGrid, a2.oldGrid,
                                       initial, dates_[step])
                      /\ condCount' =
                            [a \in {"prices_", "controlPrices_"} |->
                                condCount[a] + Applied(a)]
                      /\ transfers' = transfers \o <<a1, a2>>
                      /\ callLog' = head \o
                            <<"movePricesBeforeExDiv:prices_",
                              "movePricesBeforeExDiv:controlPrices_",
                              "initializeOperator", "initializeModel",
                              "initializeStepCondition">>
                            \o [i \in 1..Cardinality(StepConditionTargets)
                                  |-> "applyTo"]
                      /\ step' = NextEvent(step)
                      /\ pc' = IF LastEvent(step, dateNumber_) THEN "Done"
                               ELSE "BetweenEvents"
                      /\ err' = "none"
    /\ UNCHANGED <<underlying, dividends, exdivdates, gridPoints,
                   dividends_, underlying_, dateNumber_, dates_, analytic_,
                   transferVars, quoteVars>>

Next ==
    \/ Construct
    \/ StartValuation
    \/ Rollback
    \/ executeIntermediateStep
    \/ Finish

Spec == Init /\ [][Next]_vars

\* one thread runs the valuation to its end: a step that can be taken is
\* taken
FairSpec == Spec /\ WF_vars(Next)

-----------------------------------------------------------------------------
(* SimpleQuote *)

\* SimpleQuote(Real value) : value_(value) {}
QuoteInit ==
    /\ OptionIdle /\ TransferIdle
    /\ qpc = "Live"
    /\ value_ \in QuoteValues
    /\ quoteArg = value_ /\ quoteOld = value_ /\ quoteDiff = Fin(0)
    /\ notifications = 0 /\ quoteCalls = 0

\* Real setValue(Real value)
setValue ==
    /\ qpc = "Live"
    /\ quoteCalls < MaxCalls
    /\ \E value \in QuoteValues :
       \E diff \in {RealSub(value, value_)} :
          /\ quoteArg' = value
          /\ quoteOld' = value_
          /\ quoteDiff' = diff
          /\ IF Changed(diff)
             THEN /\ value_' = value
                  /\ notifications' = notifications + 1
             ELSE UNCHANGED <<value_, notifications>>
    /\ quoteCalls' = quoteCalls + 1
    /\ UNCHANGED <<qpc, optionVars, transferVars>>

QuoteNext == setValue

QuoteSpec == QuoteInit /\ [][QuoteNext]_vars

-----------------------------------------------------------------------------
(* Properties *)

IsConfigurationError(e) ==
    e \in {"ConfigurationError:count", "ConfigurationError:sum"}

BaseInitialised ==
    \E i \in 1..Len(callLog) : callLog[i] = "MultiPeriodOption"

Valuing ==
    pc \in {"AtMaturity", "BetweenEvents", "AtDividendEvent", "Done"}
    \/ (pc = "Failed" /\ err = "DegenerateGridError")

EventCompleted ==
    pc = "AtDividendEvent" /\ pc' \in {"BetweenEvents", "Done"}

UsablePoints(g) == {j \in 1..Len(g) : RGt(g[j], R(0))}

\* C1: a constructor call with sum(dividends) >= underlying, equality
\* included, ends in a ConfigurationError, and every constructed instance
\* has sum(dividends) < underlying.
C1_SumBelowUnderlying ==
    /\ (pc # "Unconstructed" /\ addElements(dividends) >= underlying)
          => (pc = "Failed" /\ IsConfigurationError(err))
    /\ (pc \notin {"Unconstructed", "Failed"})
          => addElements(dividends_) < underlying

C1_Witness ==
    /\ pc = "Failed" /\ err = "ConfigurationError:sum"
    /\ addElements(dividends) = underlying

\* C2: a constructor call whose number of dividends differs from the number
\* of ex-dividend dates ends in a ConfigurationError, and every constructed
\* instance has as many dividends as dates.
C2_CountsAgree ==
    /\ (pc # "Unconstructed" /\ Len(dividends) # Len(exdivdates))
          => (pc = "Failed" /\ IsConfigurationError(err))
    /\ (pc \notin {"Unconstructed", "Failed"})
          => Len(dividends_) = Len(dates_)

C2_Witness ==
    /\ pc = "Failed" /\ err = "ConfigurationError:count"
    /\ Len(dividends) < Len(exdivdates)
    /\ addElements(dividends) < underlying

\* C3 as stated: when the ConfigurationError is raised, no base-option state
\* has been initialised from the violating inputs.
C3_NoStateBeforeError ==
    (pc = "Failed" /\ IsConfigurationError(err)) => ~BaseInitialised

\* C3 amended: when a requirement of the constructor body fails, the base
\* option has already been constructed from the inputs (net spot
\* underlying - sum(dividends), the dates), but no grid limits, grid or price
\* array has been set up and no dividend event has been processed.
C3_ErrorBeforeGridWork ==
    (pc = "Failed" /\ IsConfigurationError(err)) =>
        /\ BaseInitialised
        /\ underlying_ = underlying - addElements(dividends)
        /\ dateNumber_ = Len(exdivdates)
        /\ callLog = <<"MultiPeriodOption">>
        /\ grid_ = <<>> /\ prices_ = <<>> /\ controlPrices_ = <<>>
        /\ sMin_ = R(0) /\ sMax_ = R(0)
        /\ step = 1 /\ transfers = <<>>

C3_Witness ==
    /\ pc = "Failed" /\ err = "ConfigurationError:sum"
    /\ underlying_ < 0 /\ underlying_ # underlying

\* C4 as stated: transferring prices from a grid onto the same grid leaves
\* every entry unchanged, the last two included.
C4_RoundTrip ==
    (tpc = "returned" /\ tNewGrid = tOldGrid) => tOut.prices = tPrices

\* C4 amended: for a strictly increasing grid with at least two strictly
\* positive points, transferring prices from the grid onto itself leaves
\* unchanged every entry below the last index whose grid value is strictly
\* positive, and overwrites the last entry with the second-to-last price.
C4_RoundTripBelowLast ==
    (tpc = "returned" /\ tNewGrid = tOldGrid
        /\ Cardinality(UsablePoints(tOldGrid)) >= 2) =>
        LET n == Len(tOldGrid)
        IN  /\ tOut.status = "ok"
            /\ Len(tOut.prices) = n
            /\ \A j \in 1..(n - 1) :
                  RGt(tOldGrid[j], R(0)) => tOut.prices[j] = tPrices[j]
            /\ tOut.prices[n] = tPrices[n - 1]

C4_Witness ==
    /\ tpc = "returned" /\ tNewGrid = tOldGrid /\ tOut.status = "ok"
    /\ Len(tOldGrid) = 3 /\ RGt(tOldGrid[1], R(0))
    /\ tPrices[3] # tPrices[2]
    /\ tOut.prices[3] = tPrices[2] /\ tOut.prices[2] = tPrices[2]
    /\ tOut.prices[1] = tPrices[1]

\* C5: every point at which the spline is evaluated lies between the log of
\* the first and the log of the second-to-last usable old-grid point.
C5_EvaluatedInsideDomain ==
    (tpc = "returned" /\ tOut.status = "ok") =>
        LET xs == tOut.logOldGrid
        IN  \A j \in 1..Len(tOut.evalAt) :
               /\ LogLe(xs[1], tOut.evalAt[j])
               /\ LogLe(tOut.evalAt[j], xs[Len(xs) - 1])

C6_WitnessUnwidened ==
    /\ pc \in {"BetweenEvents", "Done"} /\ step = 2
    /\ \E f \in Factors : sMin_ = setGridLimits(center_, f).sMin

\* C7: an event changes the control prices through the grid transfer only;
\* the control array never receives the step condition and the primary
\* array receives it once per processed event.
C7_StepConditionOnPrimaryOnly ==
    [][EventCompleted =>
          /\ controlPrices_' =
                movePricesBeforeExDiv(controlPrices_, grid_',
                                      oldGridSnap').prices
          /\ prices_' =
                applyTo(movePricesBeforeExDiv(prices_, grid_',
                                              oldGridSnap').prices,
                        initialPrices_', dates_[step])
          /\ condCount'.controlPrices_ = 0
          /\ condCount'.prices_ = step' - 1]_vars

C7_Witness ==
    /\ pc = "Done" /\ step = 3
    /\ condCount.prices_ = 2 /\ condCount.controlPrices_ = 0
    /\ prices_ # controlPrices_

\* C8: every processed event transfers the primary and then the control
\* array, once each, against the same (oldGrid, newGrid) pair, the shifted
\* snapshot and the rebuilt grid; each array's result is the transfer of its
\* own prices before the event over that pair.
TransfersPaired ==
    /\ Len(transfers) = 2 * (step - 1)
    /\ \A i \in 1..(step - 1) :
          /\ transfers[2 * i - 1].array = "prices_"
          /\ transfers[2 * i].array = "controlPrices_"
          /\ transfers[2 * i - 1].newGrid = transfers[2 * i].newGrid
          /\ transfers[2 * i - 1].oldGrid = transfers[2 * i].oldGrid
    /\ step > 1 =>
          /\ transfers[Len(transfers)].newGrid = grid_
          /\ transfers[Len(transfers)].oldGrid = oldGridSnap

C8_TransfersPaired ==
    [][/\ TransfersPaired'
       /\ EventCompleted =>
             LET t1 == transfers'[Len(transfers') - 1]
                 t2 == transfers'[Len(transfers')]
             IN  /\ Len(transfers') = Len(transfers) + 2
                 /\ prices_' =
                       applyTo(movePricesBeforeExDiv(prices_, t1.newGrid,
                                                     t1.oldGrid).prices,
                               initialPrices_', dates_[step])
                 /\ controlPrices_' =
                       movePricesBeforeExDiv(controlPrices_, t2.newGrid,
                                             t2.oldGrid).prices
                 /\ t2.oldGrid = ArrayPlus(grid_, dividends_[step])
       /\ ~EventCompleted => transfers' = transfers]_vars

C8_Witness ==
    /\ pc = "Done" /\ Len(transfers) = 4
    /\ transfers[1].oldGrid # transfers[3].oldGrid

\* C9: a transfer with fewer than two strictly positive old-grid points
\* fails with a DegenerateGridError and produces no prices.
C9_DegenerateGridFails ==
    (tpc = "returned" /\ Cardinality(UsablePoints(tOldGrid)) < 2) =>
        (tOut.status = "DegenerateGridError" /\ tOut.prices = tPrices)

C9_Witness ==
    /\ tpc = "returned" /\ Len(tOldGrid) = 3
    /\ Cardinality(UsablePoints(tOldGrid)) = 1
    /\ tOut.status = "DegenerateGridError"

\* C10: the grid, the shifted snapshot of the old grid and both price arrays
\* keep the length gridPoints through every dividend event.
C10_LengthsConstant ==
    Valuing =>
        /\ Len(grid_) = gridPoints
        /\ Len(initialPrices_) = gridPoints
        /\ Len(prices_) = gridPoints
        /\ Len(controlPrices_) = gridPoints
        /\ (step > 1 \/ pc = "Failed") => Len(oldGridSnap) = gridPoints

C10_Witness ==
    /\ pc = "Done" /\ step = 3 /\ gridPoints >= 3
    /\ Len(oldGridSnap) = gridPoints /\ Len(prices_) = gridPoints

EventEntered == pc = "AtDividendEvent" /\ pc' # "AtDividendEvent"

\* sMin_ + dividends_[step], taken before the event
Candidate == RAdd(sMin_, R(dividends_[step]))

RECURSIVE SumVisited(_)
SumVisited(v) ==
    IF v = <<>> THEN 0 ELSE dividends_[Head(v)] + SumVisited(Tail(v))

\* C11: a transfer writes exactly one output per new-grid index and reads
\* the new grid only at indices below its length, whatever the lengths of
\* the two grids.
C11_OneOutputPerNewGridPoint ==
    (tpc = "returned" /\ tOut.status = "ok") =>
        /\ tOut.written = 1..Len(tNewGrid)
        /\ tOut.newGridReads \subseteq 1..Len(tNewGrid)

\* C12: in scenario C the spline is evaluated at ln(2) for output 0 and at
\* ln(10) for output 1, and exactly two outputs are produced.
C12_ScenarioCEvaluation ==
    (tpc = "returned" /\ ScenarioC) =>
        /\ tOut.status = "ok"
        /\ tOut.written = 1..2
        /\ tOut.evalAt[1] = QL_LOG(R(2))
        /\ tOut.evalAt[2] = QL_LOG(R(10))

\* C13: the events are processed one at a time in increasing index, each
\* once; BetweenEvents and AtDividendEvent alternate and Done is entered
\* only when every event has been processed.
C13_EventsInOrder ==
    [][/\ EventEntered => visited' = Append(visited, step)
       /\ ~EventEntered => visited' = visited
       /\ \A i \in 1..Len(visited') : visited'[i] = i
       /\ pc' \in {"BetweenEvents", "Done"} => step' = Len(visited') + 1
       /\ pc = "BetweenEvents" => pc' = "AtDividendEvent"
       /\ pc' = "AtDividendEvent" =>
             (pc \in {"AtMaturity", "BetweenEvents"} /\ step <= dateNumber_)
       /\ pc = "AtDividendEvent" =>
             pc' \in {"BetweenEvents", "Done", "Failed"}
       /\ pc' = "Done" => Len(visited') = dateNumber_]_vars

C13_Witness ==
    pc = "Done" /\ visited = <<1, 2>> /\ dateNumber_ = 2

\* C14: every run ends in Done with every event processed, or in a failure
\* that carries a configuration or a degenerate-grid error, and no step is
\* taken after either.
C14_Terminates ==
    /\ <>(\/ pc = "Done" /\ Len(visited) = dateNumber_
          \/ /\ pc = "Failed"
             /\ IsConfigurationError(err) \/ err = "DegenerateGridError")
    /\ [][pc \notin {"Done", "Failed"}]_vars

C14_Witness ==
    /\ pc = "Done" /\ step = 3 /\ Len(visited) = 2
    /\ err = "none" /\ gridPoints >= 2

\* C15: a failed valuation stays failed and never reaches Done; the failing
\* event has transferred neither price array and applied no step condition.
C15_NoPartialSuccess ==
    [][/\ pc = "Failed" => pc' = "Failed"
       /\ (EventEntered /\ pc' = "Failed") =>
             /\ prices_' = prices_
             /\ controlPrices_' = controlPrices_
             /\ transfers' = transfers
             /\ condCount' = condCount]_vars

C15_Witness ==
    /\ pc = "Failed" /\ err = "DegenerateGridError"
    /\ visited = <<1>> /\ transfers = <<>>
    /\ Len(prices_) = 1 /\ prices_[1].kind = "rollback"

\* C16: the analytic control variate is priced at the net spot with all
\* dividends reinstated, which is the underlying given to the constructor,
\* with the dividends and ex-dividend dates of the option itself.
C16_ControlVariateSpot ==
    Valuing =>
        /\ analytic_.underlying = underlying_ + addElements(dividends_)
        /\ analytic_.underlying = underlying
        /\ analytic_.dividends = dividends
        /\ analytic_.dates = exdivdates

C16_Witness ==
    /\ pc = "AtMaturity" /\ addElements(dividends) = 3
    /\ underlying_ = 1 /\ analytic_.underlying = 4

\* C17: at an event with amount d the center handed to setGridLimits is the
\* center before the event plus d.
C17_NewCenter ==
    [][EventEntered =>
          /\ gridLimitsSet'.center = center_ + dividends_[step]
          /\ center_' = center_ + dividends_[step]]_vars

C17_Witness ==
    /\ pc = "BetweenEvents" /\ step = 2
    /\ center_ = underlying_ + dividends_[1]
    /\ gridLimitsSet.center = center_

C19_WideningRule ==
    [][(EventEntered /\ RGt(Candidate, gridLimitsSet'.sMin)) =>
          /\ sMin_' = Candidate
          /\ sMax_' = RDiv(R(center_' * center_'), sMin_')
          /\ RMul(sMin_', sMax_') = R(center_' * center_')
          /\ center_' = center_ + dividends_[step]]_vars

C19_Witness ==
    /\ pc \in {"BetweenEvents", "Done"} /\ step = 2
    /\ RGt(sMin_, gridLimitsSet.sMin)
    /\ sMin_ = oldGridSnap[1]
    /\ RMul(sMin_, sMax_) = R(center_ * center_)

\* C20 as stated: when the candidate does not exceed the current sMin, sMin
\* and sMax after the event equal their values before the event.
C20_BoundsAsBefore ==
    [][(EventEntered /\ ~RGt(Candidate, gridLimitsSet'.sMin)) =>
          (sMin_' = sMin_ /\ sMax_' = sMax_)]_vars

\* C20 amended: when the candidate does not exceed the sMin that
\* setGridLimits has set for the new center, the event leaves sMin and sMax
\* as setGridLimits set them; sMin is then at least the candidate, so above
\* its value before the event when the dividend is positive.
C20_BoundsAsSet ==
    [][(EventEntered /\ ~RGt(Candidate, gridLimitsSet'.sMin)) =>
          /\ sMin_' = gridLimitsSet'.sMin
          /\ sMax_' = gridLimitsSet'.sMax
          /\ RGe(sMin_', Candidate)
          /\ dividends_[step] > 0 => RGt(sMin_', sMin_)]_vars

C20_Witness ==
    /\ pc \in {"BetweenEvents", "Done"} /\ step = 2
    /\ sMin_ = gridLimitsSet.sMin /\ sMax_ = gridLimitsSet.sMax
    /\ RGt(sMin_, oldGridSnap[1])

Count(log, name) == Cardinality({i \in 1..Len(log) : log[i] = name})

BoundsChanged == <<sMin_', sMax_'>> # <<sMin_, sMax_>>

\* C21 as stated: at an event the grid is rebuilt exactly when the bounds
\* update changed sMin or sMax.
C21_RebuildIffBoundsChanged ==
    [][EventEntered =>
          (Count(callLog', "initializeGrid") > 0 <=> BoundsChanged)]_vars

\* C21 amended: every event rebuilds the grid and the initial condition
\* once, for the bounds the event ends with, whether or not they changed.
C21_RebuildAtEveryEvent ==
    [][EventEntered =>
          /\ Count(callLog', "initializeGrid") = 1
          /\ Count(callLog', "initializeInitialCondition") = 1
          /\ Len(grid_') = gridPoints
          /\ grid_'[1] = sMin_'
          /\ gridPoints > 1 => grid_'[gridPoints] = sMax_'
          /\ initialPrices_' = initializeInitialCondition(grid_')]_vars

C21_Witness ==
    /\ pc \in {"BetweenEvents", "Done"} /\ visited = <<1>>
    /\ preEvent.sMin = sMin_ /\ preEvent.sMax = sMax_
    /\ Count(callLog, "initializeGrid") = 1

\* C22: the oldGrid of both transfers of an event is the grid held before
\* the event with the dividend added to every level, never the rebuilt
\* grid, and it is strictly increasing whenever the grid before the event
\* is.
C22_OldGridIsShiftedPreEventGrid ==
    [][EventEntered =>
          /\ Len(oldGridSnap') = Len(grid_)
          /\ \A i \in 1..Len(grid_) :
                oldGridSnap'[i] = RAdd(grid_[i], R(dividends_[step]))
          /\ StrictlyIncreasing(grid_) => StrictlyIncreasing(oldGridSnap')
          /\ \A i \in (Len(transfers) + 1)..Len(transfers') :
                transfers'[i].oldGrid = oldGridSnap']_vars

C22_Witness ==
    /\ pc \in {"BetweenEvents", "Done"} /\ visited = <<1>>
    /\ dividends_[1] > 0 /\ gridPoints >= 3
    /\ Len(transfers) = 2
    /\ transfers[1].oldGrid = ArrayPlus(preEvent.grid, dividends_[1])
    /\ transfers[2].oldGrid = ArrayPlus(preEvent.grid, dividends_[1])
    /\ ArrayPlus(grid_, dividends_[1]) # transfers[1].oldGrid
    /\ StrictlyIncreasing(preEvent.grid)

EventOrder ==
    <<"setGridLimits", "initializeGrid", "initializeInitialCondition",
      "movePricesBeforeExDiv:prices_", "movePricesBeforeExDiv:controlPrices_",
      "initializeOperator", "initializeModel", "initializeStepCondition",
      "applyTo">>

\* C23: an event runs its sub-steps in the order bounds update and oldGrid
\* snapshot, grid rebuild, transfer of prices_, transfer of controlPrices_,
\* operator, model, step condition, applyTo; the transfers go from the
\* snapshot onto the rebuilt grid and the step condition is applied to the
\* transferred prices_. A failing event stops inside the first transfer.
C23_SubStepOrder ==
    [][/\ EventCompleted =>
             /\ callLog' = EventOrder
             /\ grid_'[1] = sMin_'
             /\ oldGridSnap' = ArrayPlus(grid_, dividends_[step])
             /\ transfers' = transfers \o
                   <<[array |-> "prices_", newGrid |-> grid_',
                      oldGrid |-> oldGridSnap'],
                     [array |-> "controlPrices_", newGrid |-> grid_',
                      oldGrid |-> oldGridSnap']>>
             /\ prices_' =
                   applyTo(movePricesBeforeExDiv(prices_, grid_',
                                                 oldGridSnap').prices,
                           initialPrices_', dates_[step])
             /\ controlPrices_' =
                   movePricesBeforeExDiv(controlPrices_, grid_',
                                         oldGridSnap').prices
       /\ (EventEntered /\ pc' = "Failed") =>
             callLog' = SubSeq(EventOrder, 1, 4)]_vars

C23_Witness ==
    /\ pc \in {"BetweenEvents", "Done"} /\ visited = <<1>>
    /\ callLog = EventOrder
    /\ prices_[1].kind = "applyTo" /\ prices_[1].of.kind = "interp"
    /\ controlPrices_[1].kind = "interp"
    /\ prices_[1].of.ys[1].kind = "rollback"

\* the index of the k-th strictly positive level of g
KthUsable(g, k) ==
    CHOOSE j \in UsablePoints(g) :
        Cardinality({i \in UsablePoints(g) : i <= j}) = k

\* C24: the filter keeps exactly the pairs whose old-grid value is strictly
\* positive, in index order; the two filtered sequences have the same
\* length and the k-th kept price is the price of the k-th kept level.
C24_FilterKeepsPositivePairs ==
    tpc = "returned" =>
        /\ Len(tOut.logOldGrid) = Cardinality(UsablePoints(tOldGrid))
        /\ Len(tOut.tmpPrices) = Len(tOut.logOldGrid)
        /\ \A k \in 1..Len(tOut.logOldGrid) :
              /\ tOut.logOldGrid[k] = QL_LOG(tOldGrid[KthUsable(tOldGrid, k)])
              /\ tOut.logOldGrid[k] # NaN
              /\ tOut.tmpPrices[k] = tPrices[KthUsable(tOldGrid, k)]

C24_Witness ==
    /\ tpc = "returned" /\ Len(tOldGrid) = 3
    /\ tOldGrid[1] = R(0) /\ tPrices[1].v = 1 /\ tPrices[2].v = 0
    /\ Len(tOut.tmpPrices) = 2 /\ tOut.tmpPrices[1].v = 0
    /\ tOut.logOldGrid[1] = QL_LOG(tOldGrid[2])

\* C25: for every output index j inside the new grid, jGrid is j when
\* newGrid[j] is below the second-to-last level of the unfiltered old grid
\* and the index of that level otherwise, and the output at j is the spline
\* at the log of newGrid[jGrid].
C25_ClampRule ==
    (tpc = "returned" /\ tOut.status = "ok") =>
        \A j \in tOut.written \cap (1..Len(tNewGrid)) :
            LET n == Len(tOldGrid)
                jGrid == IF RLt(tNewGrid[j], tOldGrid[n - 1]) THEN j
                         ELSE n - 1
            IN  /\ tOut.jGrid[j] = jGrid
                /\ jGrid <= Len(tNewGrid) =>
                      /\ tOut.evalAt[j] = QL_LOG(tNewGrid[jGrid])
                      /\ tOut.prices[j] =
                            priceSpline(tOut.logOldGrid, tOut.tmpPrices,
                                        QL_LOG(tNewGrid[jGrid]))

C25_Witness ==
    /\ tpc = "returned" /\ tOut.status = "ok"
    /\ Len(tOldGrid) = 3 /\ Len(tNewGrid) = 3
    /\ Len(tOut.logOldGrid) = 2
    /\ tOut.jGrid = <<1, 2, 2>>
    /\ tOut.evalAt[3] = QL_LOG(tNewGrid[2])
    /\ RGt(tNewGrid[2], tOldGrid[2])

SetValueCalled == quoteCalls' = quoteCalls + 1

\* C26 as stated: setValue(v) returns v minus the stored value, leaves v
\* stored, and notifies the observers exactly when v differs from the value
\* that was stored; setting the stored value again changes nothing.
C26_NotifiedIffDiffers ==
    [][SetValueCalled =>
          /\ quoteDiff' = RealSub(quoteArg', value_)
          /\ value_' = quoteArg'
          /\ notifications' = notifications + 1 <=>
                RealNe(quoteArg', value_)
          /\ ~RealNe(quoteArg', value_) =>
                UNCHANGED <<value_, notifications>>]_vars

\* C26 amended: setValue(v) returns v minus the stored value and leaves v
\* stored; the observers are notified exactly when that difference is not
\* zero. For finite values this is exactly when v differs from the stored
\* value, and setting the stored value again changes nothing; an infinity
\* set over the same infinity has the difference NaN and notifies.
C26_NotifiedIffDifferenceNonZero ==
    [][SetValueCalled =>
          /\ quoteDiff' = RealSub(quoteArg', value_)
          /\ value_' = quoteArg'
          /\ notifications' \in {notifications, notifications + 1}
          /\ notifications' = notifications + 1 <=>
                RealNe(RealSub(quoteArg', value_), Fin(0))
          /\ (quoteArg'.kind = "fin" /\ value_.kind = "fin") =>
                /\ notifications' = notifications + 1 <=>
                      quoteArg' # value_
                /\ quoteArg' = value_ =>
                      UNCHANGED <<value_, notifications>>
          /\ (quoteArg'.kind = "inf" /\ quoteArg' = value_) =>
                /\ quoteDiff' = NaN
                /\ notifications' = notifications + 1]_vars

C26_Witness ==
    /\ qpc = "Live" /\ quoteCalls = 2 /\ notifications = 1
    /\ quoteArg = Fin(1) /\ quoteOld = Fin(1) /\ value_ = Fin(1)
    /\ quoteDiff = Fin(0)

C26_WitnessInfinity ==
    /\ qpc = "Live" /\ quoteCalls = 1 /\ notifications = 1
    /\ quoteArg = Inf(1) /\ quoteOld = Inf(1) /\ value_ = Inf(1)
    /\ quoteDiff = NaN

\* C27: every output of a transfer is the spline through the prices as
\* they were before the transfer, at the kept levels; what the loop has
\* already written at earlier indices does not enter a later output.
C27_OutputsFromOriginalPrices ==
    (tpc = "returned" /\ tOut.status = "ok") =>
        LET m == Cardinality(UsablePoints(tOldGrid))
            xs == [k \in 1..m |-> QL_LOG(tOldGrid[KthUsable(tOldGrid, k)])]
            ys == [k \in 1..m |-> tPrices[KthUsable(tOldGrid, k)]]
        IN  /\ tOut.tmpPrices = ys
            /\ \A j \in tOut.written :
                  tOut.prices[j] = priceSpline(xs, ys, tOut.evalAt[j])

C27_Witness ==
    /\ tpc = "returned" /\ tOut.status = "ok"
    /\ Len(tOldGrid) = 3 /\ RGt(tOldGrid[1], R(0))
    /\ tOut.prices[1] # tPrices[1]
    /\ tOut.prices[3].kind = "interp"
    /\ tOut.prices[3].ys[1] = tPrices[1]

\* the output indices inside the new grid whose level reaches the
\* second-to-last level of the old grid
Clamped ==
    {j \in tOut.written \cap (1..Len(tNewGrid)) :
        RGe(tNewGrid[j], tOldGrid[Len(tOldGrid) - 1])}

\* C28: all clamped outputs hold one value, the spline at the log of the
\* new-grid level with the second-to-last index of the old grid, and on a
\* strictly increasing new grid the clamped indices are a suffix.
C28_ClampedOutputsIdentical ==
    (tpc = "returned" /\ tOut.status = "ok"
        /\ Len(tOldGrid) - 1 <= Len(tNewGrid)) =>
        /\ \A j \in Clamped :
              tOut.prices[j] =
                 priceSpline(tOut.logOldGrid, tOut.tmpPrices,
                             QL_LOG(tNewGrid[Len(tOldGrid) - 1]))
        /\ \A j \in Clamped, k \in Clamped : tOut.prices[j] = tOut.prices[k]
        /\ StrictlyIncreasing(tNewGrid) =>
              \A j \in Clamped :
                 \A k \in tOut.written \cap (1..Len(tNewGrid)) :
                    k > j => k \in Clamped

C28_Witness ==
    /\ tpc = "returned" /\ tOut.status = "ok"
    /\ Len(tOldGrid) = 3 /\ Len(tNewGrid) = 3
    /\ Clamped = {2, 3}
    /\ tOut.prices[2] = tOut.prices[3]
    /\ tOut.prices[3].kind = "interp"
    /\ tOut.prices[1] # tOut.prices[2]

RMax(a, b) == IF RLt(a, b) THEN b ELSE a

\* C29: the sMin an event ends with is the larger of the sMin that
\* setGridLimits set for the new center and the sMin before the event plus
\* the dividend; so it is at least the latter, and above the sMin before
\* the event when the dividend is positive.
C29_SMinIsMaximum ==
    [][EventEntered =>
          /\ sMin_' = RMax(gridLimitsSet'.sMin, Candidate)
          /\ RGe(sMin_', RAdd(sMin_, R(dividends_[step])))
          /\ RGe(sMin_', gridLimitsSet'.sMin)
          /\ dividends_[step] > 0 => RGt(sMin_', sMin_)]_vars

C29_Witness ==
    /\ pc = "Done" /\ visited = <<1, 2>>
    /\ dividends_[1] > 0 /\ dividends_[2] > 0
    /\ RGt(sMin_, gridLimitsSet.sMin)
    /\ sMin_ = RAdd(preEvent.sMin, R(dividends_[2]))
    /\ RGt(preEvent.sMin, R(0))

\* C30: in every event of a valuation, every old-grid level whose log
\* enters the spline and every new-grid level newGrid[jGrid] whose log is
\* taken at evaluation is strictly positive, in both transfers.
C30_LogsOfPositiveNumbers ==
    [][EventEntered =>
          \A a \in {prices_, controlPrices_} :
             LET m == movePricesBeforeExDiv(a, grid_', oldGridSnap')
             IN  /\ \A k \in 1..Len(m.logOldGrid) :
                       m.logOldGrid[k].kind = "log"
                 /\ \A j \in 1..Len(m.evalAt) :
                       /\ m.jGrid[j] \in 1..Len(grid_')
                       /\ RGt(grid_'[m.jGrid[j]], R(0))
                       /\ m.evalAt[j].kind = "log"
                 /\ m.newGridReads \subseteq 1..Len(grid_')]_vars

C30_Witness ==
    /\ pc \in {"BetweenEvents", "Done"} /\ visited = <<1, 2>>
    /\ dividends_[1] > 0 /\ dividends_[2] > 0 /\ gridPoints >= 3
    /\ \A i \in 1..Len(grid_) : RGt(grid_[i], R(0))
    /\ \A i \in 1..Len(oldGridSnap) : RGt(oldGridSnap[i], R(0))
    /\ controlPrices_[gridPoints].kind = "interp"
    /\ controlPrices_[gridPoints].x = QL_LOG(grid_[gridPoints - 1])

====
